---- MODULE Spec2Model ----
(***************************************************************************)
(* Model of Code/MFM_Prime_Generation.py: the Fibonacci base sequence      *)
(* floor(F_n / n^1.5) + 2, the trigonometric correction built from K       *)
(* random coefficients, the primality flags, and the sweep of main() over  *)
(* K_VALUES that appends one result record per K.                          *)
(*                                                                         *)
(* Numbers.  TLC has 32-bit integers and no reals, so                      *)
(*  - arbitrary-precision integers (sympy Integer, Python int) are         *)
(*    little-endian digit sequences in base 2^15 (Big...);                 *)
(*  - the float64 value n**1.5 is a 53-bit mantissa and an exponent,       *)
(*    rounded to nearest-even from the exact square root of n^3;           *)
(*  - the correction sums are exact rationals over the denominator         *)
(*    2*CoefRes: the coefficients lie on the grid of the uniform sampler   *)
(*    and the cosines are the exact values for N in {1,2,3,4,6}.           *)
(***************************************************************************)
EXTENDS Integers, Sequences, FiniteSets, TLC

(***************************************************************************)
(* State.                                                                  *)
(***************************************************************************)
VARIABLES
    N_MAX, K_VALUES,    \* the configuration
    pc,                 \* where main (or the single call) stands
    ki,                 \* K-runs finished: the position in K_VALUES
    clock, start_time,  \* time.time() in ticks, and its reading at the run's start
    base_vals, correction_vals, sequence_vals,
    prime_flags, prime_count, prime_fraction,
    coeffs, corrections, k,     \* locals of correction_fourier
    results, times,
    raised,             \* the exception that ended main ("" for none)
    stream, rng_pos,    \* the generator: the samples its seed fixes, and how many were drawn
    log,                \* history: per K-run the coefficient vector and corrected values
    execution, first,   \* which execution under the same seed; what the first one produced
    fn, arg, ret        \* a single call of a helper: function, argument, outcome

(***************************************************************************)
(* Arbitrary-precision naturals: <<d0, d1, ...>> in base Base, least       *)
(* significant digit first, no leading zero digit; zero is <<>>.           *)
(***************************************************************************)
Base == 2^15

RECURSIVE BigOf(_)
BigOf(x) == IF x = 0 THEN <<>> ELSE <<x % Base>> \o BigOf(x \div Base)

RECURSIVE BigToInt(_)
BigToInt(a) == IF a = <<>> THEN 0 ELSE Head(a) + Base * BigToInt(Tail(a))

RECURSIVE BigTrim(_)
BigTrim(a) ==
    IF a = <<>> THEN a
    ELSE IF a[Len(a)] = 0 THEN BigTrim(SubSeq(a, 1, Len(a) - 1)) ELSE a

\* a * Base^cnt
BigShift(a, cnt) == IF a = <<>> THEN <<>> ELSE [i \in 1..cnt |-> 0] \o a

RECURSIVE BigAddC(_, _, _)
BigAddC(a, b, c) ==
    IF a = <<>> /\ b = <<>> THEN (IF c = 0 THEN <<>> ELSE <<c>>)
    ELSE LET x == IF a = <<>> THEN 0 ELSE Head(a)
             y == IF b = <<>> THEN 0 ELSE Head(b)
             s == x + y + c
         IN  <<s % Base>> \o BigAddC(IF a = <<>> THEN a ELSE Tail(a),
                                     IF b = <<>> THEN b ELSE Tail(b), s \div Base)

BigAdd(a, b) == BigAddC(a, b, 0)

\* a - b for a >= b
RECURSIVE BigSubB(_, _, _)
BigSubB(a, b, c) ==
    IF a = <<>> THEN <<>>
    ELSE LET y == IF b = <<>> THEN 0 ELSE Head(b)
             s == Head(a) - y - c
         IN  <<s % Base>> \o BigSubB(Tail(a), IF b = <<>> THEN b ELSE Tail(b),
                                     IF s < 0 THEN 1 ELSE 0)

BigSub(a, b) == BigTrim(BigSubB(a, b, 0))

\* a <= b
RECURSIVE BigLeqAt(_, _, _)
BigLeqAt(a, b, i) ==
    IF i = 0 THEN TRUE
    ELSE IF a[i] # b[i] THEN a[i] < b[i] ELSE BigLeqAt(a, b, i - 1)

BigLeq(a, b) ==
    IF Len(a) # Len(b) THEN Len(a) < Len(b) ELSE BigLeqAt(a, b, Len(a))

\* a * d for one digit 0 <= d < Base
RECURSIVE BigMulDigitC(_, _, _)
BigMulDigitC(a, d, c) ==
    IF a = <<>> THEN (IF c = 0 THEN <<>> ELSE <<c>>)
    ELSE LET s == Head(a) * d + c
         IN  <<s % Base>> \o BigMulDigitC(Tail(a), d, s \div Base)

BigMulDigit(a, d) == IF d = 0 THEN <<>> ELSE BigMulDigitC(a, d, 0)

RECURSIVE BigMul(_, _)
BigMul(a, b) ==
    IF a = <<>> \/ b = <<>> THEN <<>>
    ELSE BigAdd(BigMulDigit(b, Head(a)), BigShift(BigMul(Tail(a), b), 1))

\* a * 2^cnt
BigShl(a, cnt) == BigShift(BigMulDigit(a, 2^(cnt % 15)), cnt \div 15)

\* number of significant bits
RECURSIVE BitLenInt(_)
BitLenInt(x) == IF x = 0 THEN 0 ELSE 1 + BitLenInt(x \div 2)

BigBitLen(a) == IF a = <<>> THEN 0 ELSE 15 * (Len(a) - 1) + BitLenInt(a[Len(a)])

\* the largest digit d in lo..hi with d * b <= r   (lo * b <= r)
RECURSIVE DivDigit(_, _, _, _)
DivDigit(r, b, lo, hi) ==
    IF lo = hi THEN lo
    ELSE LET mid == (lo + hi + 1) \div 2
         IN  IF BigLeq(BigMulDigit(b, mid), r) THEN DivDigit(r, b, mid, hi)
             ELSE DivDigit(r, b, lo, mid - 1)

\* floor division: [q, r] with a = q*b + r, 0 <= r < b   (b # 0)
RECURSIVE BigDivMod(_, _)
BigDivMod(a, b) ==
    IF a = <<>> THEN [q |-> <<>>, r |-> <<>>]
    ELSE LET rest == BigDivMod(Tail(a), b)
             r2   == BigAdd(BigShift(rest.r, 1), BigOf(Head(a)))
             d    == DivDigit(r2, b, 0, Base - 1)
         IN  [q |-> BigAdd(BigShift(rest.q, 1), BigOf(d)),
              r |-> BigSub(r2, BigMulDigit(b, d))]

\* the largest digit d in lo..hi with (p + d) * d <= r
RECURSIVE SqrtDigit(_, _, _, _)
SqrtDigit(r, p, lo, hi) ==
    IF lo = hi THEN lo
    ELSE LET mid == (lo + hi + 1) \div 2
         IN  IF BigLeq(BigMulDigit(BigAdd(p, BigOf(mid)), mid), r)
             THEN SqrtDigit(r, p, mid, hi)
             ELSE SqrtDigit(r, p, lo, mid - 1)

\* integer square root: [s, r] with a = s*s + r, 0 <= r <= 2s
RECURSIVE BigSqrtRem(_)
BigSqrtRem(a) ==
    IF a = <<>> THEN [s |-> <<>>, r |-> <<>>]
    ELSE LET lo   == BigTrim(SubSeq(a, 1, IF Len(a) >= 2 THEN 2 ELSE 1))
             rest == BigSqrtRem(SubSeq(a, 3, Len(a)))
             big  == BigAdd(BigShift(rest.r, 2), lo)
             p    == BigShift(BigMulDigit(rest.s, 2), 1)
             d    == SqrtDigit(big, p, 0, Base - 1)
         IN  [s |-> BigAdd(BigShift(rest.s, 1), BigOf(d)),
              r |-> BigSub(big, BigMulDigit(BigAdd(p, BigOf(d)), d))]

BigIsOdd(a) == a # <<>> /\ Head(a) % 2 = 1

BigHalf(a) == BigDivMod(a, <<2>>).q

(***************************************************************************)
(* fibonacci_sympy: the exact n-th Fibonacci number, n >= 0.  FibPair(n)   *)
(* is <<F_n, F_(n+1)>>, by the doubling identities.                        *)
(***************************************************************************)
RECURSIVE FibPair(_)
FibPair(n) ==
    IF n = 0 THEN <<BigOf(0), BigOf(1)>>
    ELSE LET p == FibPair(n \div 2)
             c == BigMul(p[1], BigSub(BigAdd(p[2], p[2]), p[1]))
             d == BigAdd(BigMul(p[1], p[1]), BigMul(p[2], p[2]))
         IN  IF n % 2 = 0 THEN <<c, d>> ELSE <<d, BigAdd(c, d)>>

fibonacci_sympy(n) == FibPair(n)[1]

(***************************************************************************)
(* n**1.5 with n a numpy int64: the float64 power, modelled as the         *)
(* correctly rounded (nearest-even) value of sqrt(n^3).  A float is        *)
(* [m, e] = m * 2^e with m = <<>> (zero) or MantBits significant bits.     *)
(***************************************************************************)
MantBits == 53

Pow15(n) ==
    IF n = 0 THEN [m |-> <<>>, e |-> 0]
    ELSE LET b     == BigOf(n)
             cube  == BigMul(BigMul(b, b), b)
             room  == 2 * MantBits + 2 - BigBitLen(cube)
             sh    == IF room % 2 = 0 THEN room ELSE room - 1
             t     == sh \div 2
             sr    == BigSqrtRem(BigShl(cube, sh))   \* MantBits + 1 bits
             m0    == BigHalf(sr.s)
             up    == BigIsOdd(sr.s) /\ (sr.r # <<>> \/ BigIsOdd(m0))
             m1    == IF up THEN BigAdd(m0, BigOf(1)) ELSE m0
         IN  IF BigBitLen(m1) > MantBits THEN [m |-> BigHalf(m1), e |-> 2 - t]
             ELSE [m |-> m1, e |-> 1 - t]

(***************************************************************************)
(* F_n // denominator: floor of the exact quotient of the integer F_n by   *)
(* the float's exact value (floor division, F_n >= 0).  A zero             *)
(* denominator raises ZeroDivisionError.                                   *)
(***************************************************************************)
FloorDivFloat(F, d) ==
    IF d.m = <<>> THEN [raised |-> "ZeroDivisionError", val |-> <<>>]
    ELSE IF d.e < 0
         THEN [raised |-> "", val |-> BigDivMod(BigShl(F, 0 - d.e), d.m).q]
         ELSE [raised |-> "", val |-> BigDivMod(F, BigShl(d.m, d.e)).q]

(***************************************************************************)
(* base_MFM(n): [val, raised, fib]; val is the returned integer, raised    *)
(* the exception that escapes ("" for none), fib whether                   *)
(* fibonacci_sympy was called.                                             *)
(***************************************************************************)
\* the fallback guard off by one: n = 0 reaches the division
base_MFM_guard_zero(n) ==
    IF n < 0 THEN [val |-> BigOf(2), raised |-> "", fib |-> FALSE]
    ELSE LET w == FloorDivFloat(fibonacci_sympy(n), Pow15(n))
         IN  IF w.raised # "" THEN [val |-> <<>>, raised |-> w.raised, fib |-> TRUE]
             ELSE [val |-> BigAdd(w.val, BigOf(2)), raised |-> "", fib |-> TRUE]

base_MFM(n) ==
    IF n < 1 THEN [val |-> BigOf(2), raised |-> "", fib |-> FALSE]
    ELSE LET F_n         == fibonacci_sympy(n)
             denominator == Pow15(n)
             w           == FloorDivFloat(F_n, denominator)
         IN  IF w.raised # "" THEN [val |-> <<>>, raised |-> w.raised, fib |-> TRUE]
             ELSE [val |-> BigAdd(w.val, BigOf(2)), raised |-> "", fib |-> TRUE]

(***************************************************************************)
(* is_prime_pythonic and sympy.isprime (a deterministic primality test,    *)
(* here trial division by every d with d*d <= x).                          *)
(***************************************************************************)
isprime(x) == x >= 2 /\ \A d \in 2..x : d * d <= x => x % d # 0

\* the guard off by one: 2 is rejected
is_prime_pythonic_le2(x) == IF x <= 2 THEN FALSE ELSE isprime(x)

is_prime_pythonic(x) == IF x < 2 THEN FALSE ELSE isprime(x)

(***************************************************************************)
(* Bounds of the model.                                                    *)
(***************************************************************************)
MaxNMax    == 3   \* N_MAX ranges over 0..MaxNMax
MaxK       == 2   \* every K of K_VALUES ranges over 0..MaxK
CoefRes    == 3   \* the uniform sampler yields j / CoefRes, j in 0..CoefRes-1
MaxElapsed == 1   \* clock ticks one K-run may take
MaxArg     == 92  \* largest argument of a single call of a helper
MaxNeg     == 5   \* single calls take arguments down to -MaxNeg

SweepLengths == {0, 1, 2}     \* lengths of K_VALUES
ExactCosN    == {1, 2, 3, 4, 6}   \* the N whose cosines 2*pi*a/N are rational

KValuesChoices == UNION {[1..len -> 0..MaxK] : len \in SweepLengths}

NMaxChoices == {n \in 0..MaxNMax : n = 0 \/ n \in ExactCosN}

(***************************************************************************)
(* correction_fourier, piece by piece.  Reals are exact rationals: a       *)
(* coefficient is a numerator over CoefRes, a cosine a numerator over 2,   *)
(* an entry of corrections a numerator over Den.                           *)
(***************************************************************************)
Den == 2 * CoefRes

\* np.random.uniform(-2, 2): low + (high - low) * u for the sample u = j/CoefRes
\* the range taken as [-4, 4)
uniform_wide(j) == (0 - 4) * CoefRes + (4 - (0 - 4)) * j

uniform(j) == (0 - 2) * CoefRes + (2 - (0 - 2)) * j

\* The K samples the process-wide generator hands out from position pos of
\* its stream: those the seed already fixed, then new ones.
\* a generator that ignores its seed
random_sample_unseeded(str, pos, size, fresh) == [i \in 1..size |-> fresh[i]]

random_sample(str, pos, size, fresh) ==
    [i \in 1..size |-> IF pos + i <= Len(str) THEN str[pos + i] ELSE fresh[i]]

\* the generator's stream once those K samples were handed out
stream_after(str, pos, smp) ==
    IF pos + Len(smp) <= Len(str) THEN str ELSE SubSeq(str, 1, pos) \o smp

\* np.ones(N) in place of np.zeros(N)
np_ones(N) == [i \in 1..N |-> Den]

\* np.zeros(N)
np_zeros(N) == [i \in 1..N |-> 0]

\* 2 * cos(2*pi*a / N), exact
TwiceCos(a, N) ==
    LET r == a % N
    IN  CASE N = 1 -> 2
          [] N = 2 -> IF r = 0 THEN 2 ELSE 0 - 2
          [] N = 3 -> IF r = 0 THEN 2 ELSE 0 - 1
          [] N = 4 -> IF r = 0 THEN 2 ELSE IF r = 2 THEN 0 - 2 ELSE 0
          [] N = 6 -> IF r = 0 THEN 2
                      ELSE IF r = 3 THEN 0 - 2
                      ELSE IF r \in {1, 5} THEN 1 ELSE 0 - 1

\* corrections += coeffs[k] * np.cos(freq * n_array), freq = 2*pi*k/N
add_term(acc, coef, kk, n_array) ==
    [i \in 1..Len(acc) |-> acc[i] + coef * TwiceCos(kk * n_array[i], Len(n_array))]

\* np.round: to the nearest integer, halves to the even neighbour
np_round(num) ==
    LET f == num \div Den
        r == num - f * Den
    IN  IF 2 * r < Den THEN f
        ELSE IF 2 * r > Den THEN f + 1
        ELSE IF f % 2 = 0 THEN f ELSE f + 1

(***************************************************************************)
(* main, piece by piece.                                                   *)
(***************************************************************************)
\* np.arange(1, N_MAX + 1)
n_values(nmax) == [i \in 1..nmax |-> i]

\* base_MFM over the indices main can pass, computed once
base_of == [n \in 1..MaxNMax |-> base_MFM(n)]

\* prime_count / float(len(sequence_vals)): the quotient kept as a ratio
\* floor division in place of the float division
floor_div(count, len) ==
    IF len = 0 THEN [raised |-> "ZeroDivisionError", num |-> 0, den |-> 1]
    ELSE [raised |-> "", num |-> count \div len, den |-> 1]

true_div(count, len) ==
    IF len = 0 THEN [raised |-> "ZeroDivisionError", num |-> 0, den |-> 1]
    ELSE [raised |-> "", num |-> count, den |-> len]

\* sum(prime_flags)
RECURSIVE sum_flags(_)
sum_flags(flags) ==
    IF flags = <<>> THEN 0
    ELSE (IF Head(flags) THEN 1 ELSE 0) + sum_flags(Tail(flags))

\* list.insert(0, ...) in place of list.append(...)
insert_front(list, item) == <<item>> \o list

\* results.append(...)
append(list, item) == Append(list, item)

vars == <<N_MAX, K_VALUES, pc, ki, clock, start_time, base_vals, correction_vals,
          sequence_vals, prime_flags, prime_count, prime_fraction, coeffs,
          corrections, k, results, times, raised, stream, rng_pos, log,
          execution, first, fn, arg, ret>>

config   == <<N_MAX, K_VALUES>>
locals   == <<base_vals, correction_vals, sequence_vals, prime_flags, prime_count,
              prime_fraction>>
inner    == <<coeffs, corrections, k>>
output   == <<results, times>>
rng      == <<stream, rng_pos>>
repeat   == <<execution, first>>
call     == <<fn, arg, ret>>

NoRet == [val |-> <<>>, raised |-> "", fib |-> FALSE]

\* main's locals before the loop assigns them
Fresh ==
    /\ ki = 0 /\ start_time = 0
    /\ base_vals = <<>> /\ correction_vals = <<>> /\ sequence_vals = <<>>
    /\ prime_flags = <<>> /\ prime_count = 0
    /\ prime_fraction = [num |-> 0, den |-> 1]
    /\ coeffs = <<>> /\ corrections = <<>> /\ k = 0
    /\ results = <<>> /\ times = <<>> /\ raised = ""
    /\ rng_pos = 0 /\ log = <<>>

Init ==
    /\ N_MAX \in NMaxChoices
    /\ K_VALUES \in KValuesChoices
    /\ pc = "for"
    /\ Fresh
    /\ clock = 0 /\ stream = <<>>
    /\ execution = 1 /\ first = [results |-> <<>>, log |-> <<>>]
    /\ fn = "main" /\ arg = 0 /\ ret = NoRet

K == K_VALUES[ki + 1]

\* for K in K_VALUES: start_time = time.time()
StartRun ==
    /\ pc = "for" /\ ki < Len(K_VALUES)
    /\ start_time' = clock
    /\ pc' = "base"
    /\ UNCHANGED <<config, ki, clock, locals, inner, output, raised, rng, log, repeat, call>>

\* base_vals = [base_MFM(n) for n in n_values]
BuildBase ==
    /\ pc = "base"
    /\ LET out == [i \in 1..Len(n_values(N_MAX)) |-> base_of[n_values(N_MAX)[i]]]
       IN  IF \E i \in DOMAIN out : out[i].raised # ""
           THEN /\ raised' = "ZeroDivisionError" /\ pc' = "raised"
                /\ UNCHANGED base_vals
           ELSE /\ base_vals' = [i \in DOMAIN out |-> BigToInt(out[i].val)]
                /\ pc' = "corr" /\ UNCHANGED raised
    /\ UNCHANGED <<config, ki, clock, start_time, correction_vals, sequence_vals,
                   prime_flags, prime_count, prime_fraction, inner, output, rng, log,
                   repeat, call>>

\* correction_fourier(n_values, K), up to the loop: N, coeffs, corrections
DrawCoeffs ==
    /\ pc = "corr"
    /\ \E fresh \in [1..K -> 0..(CoefRes - 1)] :
          LET smp == random_sample(stream, rng_pos, K, fresh)
          IN  /\ coeffs' = [i \in 1..K |-> uniform(smp[i])]
              /\ stream' = stream_after(stream, rng_pos, smp)
              /\ rng_pos' = rng_pos + K
              /\ log' = append(log, [K |-> K, coeffs |-> [i \in 1..K |-> uniform(smp[i])],
                                     sequence_vals |-> <<>>])
    /\ corrections' = np_zeros(Len(n_values(N_MAX)))
    /\ k' = 0
    /\ pc' = "loop"
    /\ UNCHANGED <<config, ki, clock, start_time, locals, output, raised, repeat, call>>

\* for k in range(K): freq = (2.0 * np.pi * k) / N; corrections += ...
AddTerm ==
    /\ pc = "loop" /\ k < K
    /\ IF Len(n_values(N_MAX)) = 0
       THEN /\ raised' = "ZeroDivisionError" /\ pc' = "raised"
            /\ UNCHANGED <<corrections, k>>
       ELSE /\ corrections' = add_term(corrections, coeffs[k + 1], k, n_values(N_MAX))
            /\ k' = k + 1
            /\ UNCHANGED <<pc, raised>>
    /\ UNCHANGED <<config, ki, clock, start_time, locals, coeffs, output, rng, log,
                   repeat, call>>

\* return np.round(corrections)
ReturnCorrection ==
    /\ pc = "loop" /\ k = K
    /\ correction_vals' = [i \in DOMAIN corrections |-> np_round(corrections[i])]
    /\ coeffs' = <<>> /\ corrections' = <<>> /\ k' = 0
    /\ pc' = "combine"
    /\ UNCHANGED <<config, ki, clock, start_time, base_vals, sequence_vals, prime_flags,
                   prime_count, prime_fraction, output, raised, rng, log, repeat, call>>

\* sequence_vals = [base_vals[i] + int(correction_vals[i]) for i in range(len(n_values))]
Combine ==
    /\ pc = "combine"
    /\ LET vals == [i \in 1..Len(n_values(N_MAX)) |-> base_vals[i] + correction_vals[i]]
       IN  /\ sequence_vals' = vals
           /\ log' = [log EXCEPT ![Len(log)].sequence_vals = vals]
    /\ pc' = "primes"
    /\ UNCHANGED <<config, ki, clock, start_time, base_vals, correction_vals, prime_flags,
                   prime_count, prime_fraction, inner, output, raised, rng, repeat, call>>

\* prime_flags, prime_count, prime_fraction
CheckPrimes ==
    /\ pc = "primes"
    /\ LET flags == [i \in DOMAIN sequence_vals |-> is_prime_pythonic(sequence_vals[i])]
           frac  == true_div(sum_flags(flags), Len(sequence_vals))
       IN  /\ prime_flags' = flags
           /\ prime_count' = sum_flags(flags)
           /\ IF frac.raised # ""
              THEN /\ raised' = frac.raised /\ pc' = "raised"
                   /\ UNCHANGED prime_fraction
              ELSE /\ prime_fraction' = [num |-> frac.num, den |-> frac.den]
                   /\ pc' = "record" /\ UNCHANGED raised
    /\ UNCHANGED <<config, ki, clock, start_time, base_vals, correction_vals,
                   sequence_vals, inner, output, rng, log, repeat, call>>

\* end_time = time.time(); times.append(elapsed); results.append((K, ...))
Record ==
    /\ pc = "record"
    /\ \E d \in 0..MaxElapsed :
          /\ clock' = clock + d
          /\ times' = append(times, clock + d - start_time)
          /\ results' = append(results, [K |-> K, prime_count |-> prime_count,
                                         prime_fraction |-> prime_fraction,
                                         elapsed |-> clock + d - start_time])
    /\ ki' = ki + 1
    /\ pc' = "for"
    /\ UNCHANGED <<config, start_time, locals, inner, raised, rng, log, repeat, call>>

\* the loop is exhausted: results go to the CSV and the plots
Finish ==
    /\ pc = "for" /\ ki = Len(K_VALUES)
    /\ pc' = "done"
    /\ UNCHANGED <<config, ki, clock, start_time, locals, inner, output, raised, rng, log,
                   repeat, call>>

Next ==
    \/ StartRun \/ BuildBase \/ DrawCoeffs \/ AddTerm \/ ReturnCorrection
    \/ Combine \/ CheckPrimes \/ Record \/ Finish

Spec == Init /\ [][Next]_vars

(***************************************************************************)
(* A second execution of main under the same seed: the generator is       *)
(* re-seeded (np.random.seed with the seed of the first execution), so     *)
(* its stream starts again at the first sample; the clock runs on.         *)
(***************************************************************************)
Rerun ==
    /\ pc = "done" /\ execution = 1
    /\ execution' = 2
    /\ first' = [results |-> results, log |-> log]
    /\ pc' = "for"
    /\ ki' = 0 /\ start_time' = 0
    /\ base_vals' = <<>> /\ correction_vals' = <<>> /\ sequence_vals' = <<>>
    /\ prime_flags' = <<>> /\ prime_count' = 0
    /\ prime_fraction' = [num |-> 0, den |-> 1]
    /\ coeffs' = <<>> /\ corrections' = <<>> /\ k' = 0
    /\ results' = <<>> /\ times' = <<>> /\ raised' = ""
    /\ rng_pos' = 0 /\ log' = <<>>
    /\ UNCHANGED <<config, clock, stream, call>>

NextRepeat == Next \/ Rerun

\* the number of samples a sweep draws from the generator
RECURSIVE Drawn(_)
Drawn(kv) == IF kv = <<>> THEN 0 ELSE Head(kv) + Drawn(Tail(kv))

\* the sweeps executed twice: those drawing at most MaxK samples in all
InitRepeat == Init /\ Drawn(K_VALUES) <= MaxK

SpecRepeat == InitRepeat /\ [][NextRepeat]_vars

(***************************************************************************)
(* Single calls of the helpers, the argument drawn from -MaxNeg..MaxArg.   *)
(***************************************************************************)
InitCalls ==
    /\ fn \in {"base_MFM", "is_prime_pythonic"}
    /\ arg \in (0 - MaxNeg)..MaxArg
    /\ ret = NoRet
    /\ pc = "call"
    /\ N_MAX = 0 /\ K_VALUES = <<>>
    /\ Fresh
    /\ clock = 0 /\ stream = <<>>
    /\ execution = 1 /\ first = [results |-> <<>>, log |-> <<>>]

CallBaseMFM ==
    /\ pc = "call" /\ fn = "base_MFM"
    /\ ret' = base_MFM(arg)
    /\ pc' = "returned"
    /\ UNCHANGED <<config, ki, clock, start_time, locals, inner, output, raised, rng, log,
                   repeat, fn, arg>>

CallIsPrime ==
    /\ pc = "call" /\ fn = "is_prime_pythonic"
    /\ ret' = [val |-> is_prime_pythonic(arg), raised |-> "", fib |-> FALSE]
    /\ pc' = "returned"
    /\ UNCHANGED <<config, ki, clock, start_time, locals, inner, output, raised, rng, log,
                   repeat, fn, arg>>

NextCalls == CallBaseMFM \/ CallIsPrime

SpecCalls == InitCalls /\ [][NextCalls]_vars

(***************************************************************************)
(* Properties.                                                             *)
(***************************************************************************)
NIdx == Len(n_values(N_MAX))

Returned(f) == pc = "returned" /\ fn = f

\* x is prime by definition: at least 2, no divisor other than 1 and itself
IsPrimeDef(x) == x >= 2 /\ \A d \in 2..(x - 1) : x % d # 0

\* val - 2 is the largest q with q^2 * n^3 <= F_n^2
ExactBase(n, val) ==
    LET F  == fibonacci_sympy(n)
        F2 == BigMul(F, F)
        n3 == BigMul(BigMul(BigOf(n), BigOf(n)), BigOf(n))
        q  == BigSub(val, BigOf(2))
        q1 == BigAdd(q, BigOf(1))
    IN  /\ BigLeq(BigOf(2), val)
        /\ BigLeq(BigMul(BigMul(q, q), n3), F2)
        /\ ~BigLeq(BigMul(BigMul(q1, q1), n3), F2)

\* C1: for every n >= 1 base_MFM(n) returns floor(F_n / n^1.5) + 2 exactly, that
\* is, the result minus 2 is the largest q with q^2 * n^3 <= F_n^2; base_MFM(1)
\* and base_MFM(10) are 3.
C1_BaseExact ==
    (Returned("base_MFM") /\ arg >= 1) =>
        /\ ret.raised = ""
        /\ ExactBase(arg, ret.val)
        /\ (arg \in {1, 10} => ret.val = BigOf(3))

\* C2: is_prime_pythonic(x) is true iff x >= 2 and x has no divisor other than 1
\* and itself; it is false for x < 2, and on -5..30 true exactly for the ten
\* primes up to 29.
C2_IsPrimeStandard ==
    Returned("is_prime_pythonic") =>
        /\ ret.raised = ""
        /\ ret.val = IsPrimeDef(arg)
        /\ (arg < 2 => ret.val = FALSE)
        /\ (arg \in (0 - 5)..30 =>
               (ret.val <=> arg \in {2, 3, 5, 7, 11, 13, 17, 19, 23, 29}))

C2_Witness == Returned("is_prime_pythonic") /\ arg = 29 /\ ret.val = TRUE

\* C3: with N_MAX < 1 or K_VALUES empty the sweep raises nothing and its result
\* list stays empty.
C3_EmptyConfigNoError ==
    (N_MAX < 1 \/ K_VALUES = <<>>) => (raised = "" /\ pc # "raised" /\ results = <<>>)

\* C4: results is append-only and in K_VALUES order: after i finished K-runs it
\* holds i records, record j carries K_VALUES[j], a record once appended is never
\* changed or removed, and at the end there is one record per configured K.
C4_InOrder ==
    /\ Len(results) = ki
    /\ \A j \in 1..Len(results) : results[j].K = K_VALUES[j]
    /\ (pc = "done" => Len(results) = Len(K_VALUES))

C4_Kept ==
    /\ Len(results') >= Len(results)
    /\ SubSeq(results', 1, Len(results)) = results

C4_AppendOnlyInOrder == [](C4_InOrder) /\ [][C4_Kept]_vars

C4_Witness ==
    /\ pc = "done" /\ Len(results) = 2
    /\ results[1].K # results[2].K
    /\ results[1].elapsed > results[2].elapsed

\* the recorded ratio is count / total
IsRatio(frac, count, total) ==
    /\ frac.den > 0 /\ 0 <= frac.num /\ frac.num <= frac.den
    /\ frac.num * total = count * frac.den

PrimesIn(vals) == Cardinality({i \in DOMAIN vals : IsPrimeDef(vals[i])})

\* C5: in a K-run over at least one index prime_count is the number of indices
\* whose corrected value base_MFM(n) + round(correction(n)) is prime, it lies
\* between 0 and the number of indices, and prime_fraction is prime_count
\* divided by the number of indices, within [0, 1]; the record keeps both.
C5_PrimeStatistics ==
    /\ pc = "record" =>
          /\ NIdx >= 1 /\ Len(sequence_vals) = NIdx
          /\ \A i \in 1..NIdx :
                sequence_vals[i] = BigToInt(base_of[i].val) + correction_vals[i]
          /\ prime_count = PrimesIn(sequence_vals)
          /\ 0 <= prime_count /\ prime_count <= NIdx
          /\ IsRatio(prime_fraction, prime_count, NIdx)
    /\ \A j \in 1..Len(results) :
          /\ results[j].prime_count = PrimesIn(log[j].sequence_vals)
          /\ IsRatio(results[j].prime_fraction, results[j].prime_count, NIdx)

C5_Witness ==
    pc = "record" /\ 0 < prime_count /\ prime_count < Len(sequence_vals)

\* C6: for K = 0 correction_fourier returns as many entries as it was given
\* indices, all 0, and every corrected value is base_MFM(n).
C6_ZeroKNoCorrection ==
    /\ (pc \in {"combine", "primes", "record"} /\ K = 0) =>
          /\ Len(correction_vals) = NIdx
          /\ \A i \in 1..NIdx : correction_vals[i] = 0
    /\ (pc \in {"primes", "record"} /\ K = 0) =>
          /\ Len(sequence_vals) = NIdx
          /\ \A i \in 1..NIdx : sequence_vals[i] = BigToInt(base_of[i].val)

C6_Witness == pc = "primes" /\ K = 0 /\ NIdx >= 2 /\ sequence_vals = base_vals

\* C7: for every n < 1 base_MFM(n) returns 2, calls no Fibonacci computation and
\* raises nothing.
C7_InvalidIndexFallback ==
    (Returned("base_MFM") /\ arg < 1) =>
        (ret.val = BigOf(2) /\ ret.fib = FALSE /\ ret.raised = "")

C7_Witness == Returned("base_MFM") /\ arg = 0 /\ ret.val = BigOf(2)

\* C8: no state but the index range passes from one K-run to the next: every
\* K-run finds the generator where the first one found it, so its coefficient
\* vector is the one the generator yields for that K when no run went before.
C8_RunsIndependent ==
    /\ pc = "corr" => rng_pos = 0
    /\ pc = "loop" => \A i \in 1..K : coeffs[i] = uniform(stream[i])

\* the sum over kk = 0..upto-1 of cf[kk+1] * cos(2*pi*kk*n/total), over Den
RECURSIVE SumTerms(_, _, _, _)
SumTerms(cf, upto, n, total) ==
    IF upto = 0 THEN 0
    ELSE SumTerms(cf, upto - 1, n, total) + cf[upto] * TwiceCos((upto - 1) * n, total)

WithoutElapsed(rec) ==
    [K |-> rec.K, prime_count |-> rec.prime_count, prime_fraction |-> rec.prime_fraction]

\* C9 as claimed: a second execution under the same seed ends with the same
\* coefficient vectors, the same corrected values and the same result records.
C9_IdenticalRecords ==
    (execution = 2 /\ pc = "done") => (log = first.log /\ results = first.results)

\* C9 as amended: a second execution under the same seed draws the same
\* coefficient vector and computes the same corrected values in every K-run, and
\* its records agree in K, prime_count and prime_fraction (elapsed is measured
\* and may differ); within a run one vector of K coefficients is drawn once and
\* the correction of index n is the rounded sum over that vector.
C9_SameSeedSameOutcome ==
    /\ execution = 2 =>
          /\ Len(log) <= Len(first.log)
          /\ \A j \in 1..Len(log) :
                /\ log[j].K = first.log[j].K
                /\ log[j].coeffs = first.log[j].coeffs
                /\ \/ log[j].sequence_vals = first.log[j].sequence_vals
                   \/ j = Len(log) /\ pc \in {"loop", "combine", "raised"}
          /\ Len(results) <= Len(first.results)
          /\ \A j \in 1..Len(results) :
                WithoutElapsed(results[j]) = WithoutElapsed(first.results[j])
          /\ (pc = "done" => Len(results) = Len(first.results))
    /\ pc = "loop" => (Len(coeffs) = K /\ coeffs = log[Len(log)].coeffs)
    /\ pc = "combine" =>
          \A i \in 1..NIdx :
             correction_vals[i] = np_round(SumTerms(log[Len(log)].coeffs, K, i, NIdx))

C9_Witness ==
    /\ execution = 2 /\ pc = "done" /\ Len(results) = 2
    /\ results[1].K >= 1 /\ results[2].K >= 1
    /\ results # first.results
    /\ log = first.log

\* C10: every entry correction_fourier returns lies in [-2K, 2K], every
\* corrected value in [base_MFM(n) - 2K, base_MFM(n) + 2K], base_MFM(n) >= 2, so
\* no corrected value is below 2 - 2K.
C10_CorrectionBounded ==
    /\ pc \in {"combine", "primes", "record"} =>
          \A i \in DOMAIN correction_vals :
             0 - 2 * K <= correction_vals[i] /\ correction_vals[i] <= 2 * K
    /\ pc \in {"primes", "record"} =>
          \A i \in DOMAIN sequence_vals :
             LET b == BigToInt(base_of[i].val)
             IN  /\ b >= 2
                 /\ b - 2 * K <= sequence_vals[i] /\ sequence_vals[i] <= b + 2 * K
                 /\ sequence_vals[i] >= 2 - 2 * K

C10_Witness ==
    /\ pc = "primes" /\ K >= 2
    /\ \E i \in DOMAIN sequence_vals :
          correction_vals[i] = 0 - 2 * K /\ sequence_vals[i] = 2 - 2 * K

====
